---- MODULE Spec2Model ----
(***************************************************************************)
(* MTFSS - Multi-Tenant Folder Sorting Sieve (mtfss.py).                   *)
(* One MTFSSProcessor instance, the IMAP session it holds and the mail     *)
(* store behind it.  The processor is a sequential program: pc is the      *)
(* statement it is at, op the outermost method that was called, and every  *)
(* reply of the store (status OK / NO, or a raised IMAP4.error) is chosen  *)
(* by the environment.                                                     *)
(***************************************************************************)
EXTENDS Integers, Sequences, FiniteSets, TLC

\* ------------------------------------------------------------------ bounds
NMsgs == 2          \* messages that are ever delivered to the inbox
MaxFaults == 1      \* store replies other than OK over one behaviour
MaxSessions == 2    \* IMAP4_SSL objects that are ever constructed
MaxSweeps == 2      \* process_inbox calls that find a connection
MaxMoves == 1       \* move_email and create_folder calls the environment
                    \* makes itself

VARIABLES
    connection,   \* self.connection: 0 is None, otherwise a session id
    first_pass,   \* self.first_pass
    pc,           \* statement the processor is at ("idle": no call active)
    op,           \* outermost call in progress (or the last one made)
    result,       \* how the last outermost call ended
    message_ids,  \* local of process_inbox
    idx,          \* position of msg_id in message_ids (the for loop)
    target,       \* target_folder argument of the running move_email
    nsess,        \* sessions constructed so far
    live,         \* sessions constructed and not logged out
    authed,       \* sessions whose login succeeded
    selected,     \* sessions with a mailbox selected
    folders,      \* store: folders that exist
    inbox,        \* store: messages in INBOX
    seen,         \* store: messages flagged \Seen
    deleted,      \* store: messages flagged \Deleted
    copies,       \* store: <<message, folder>> copies made
    expunged,     \* store: messages removed from INBOX by expunge
    arrived,      \* messages delivered so far
    faults,       \* non-OK replies given so far
    sweeps,       \* sweeps started so far
    moves,        \* move_email calls made from outside a sweep so far
    trace,        \* history: commands issued by the current call / iteration
    searchLog,    \* history: scope, reply and session of every search issued
    connAtCall,   \* history: self.connection when the outermost call began
    args,         \* history: arguments of the outermost call
    prevIter,     \* history: how the previous run_continuous iteration ended
    cleanAt,      \* history: arrived when the last sweep ended, if it returned
                  \* after an OK fetch of every message found; else -1
    afterClean,   \* history: the running sweep began right after such a
                  \* sweep, nothing delivered in between
    interrupted   \* history: a KeyboardInterrupt was delivered to this call

vars == <<connection, first_pass, pc, op, result, message_ids, idx, target,
          nsess, live, authed, selected, folders, inbox, seen, deleted,
          copies, expunged, arrived, faults, sweeps, moves, trace,
          searchLog, connAtCall, args, prevIter, cleanAt, afterClean,
          interrupted>>

progVars  == <<connection, first_pass>>
loopVars  == <<message_ids, idx, target>>
sessVars  == <<nsess, live, authed, selected>>
storeVars == <<folders, inbox, seen, deleted, copies, expunged, arrived>>

\* --------------------------------------------------------------- strings
\* A Python str is a sequence of one-character strings.
LowerChars == <<"a", "b", "j", "o">>
UpperChars == <<"A", "B", "J", "O">>

CharUpper(c) ==
    IF \E i \in 1..Len(LowerChars) : LowerChars[i] = c
    THEN UpperChars[CHOOSE i \in 1..Len(LowerChars) : LowerChars[i] = c]
    ELSE c

CharLower(c) ==
    IF \E i \in 1..Len(UpperChars) : UpperChars[i] = c
    THEN LowerChars[CHOOSE i \in 1..Len(UpperChars) : UpperChars[i] = c]
    ELSE c

\* str.lower()
lower(s) == [i \in 1..Len(s) |-> CharLower(s[i])]

\* Upper-casing the first character and leaving the rest as it is
UpperFirstOnly(s) ==
    [i \in 1..Len(s) |-> IF i = 1 THEN CharUpper(s[i]) ELSE s[i]]

\* str.capitalize(): first character upper-cased, the rest lower-cased
capitalize(s) ==
    [i \in 1..Len(s) |-> IF i = 1 THEN CharUpper(s[i]) ELSE CharLower(s[i])]

\* str.replace(old, new) for one-character old and new
replace(s, old, new) == [i \in 1..Len(s) |-> IF s[i] = old THEN new ELSE s[i]]

RECURSIVE lstrip(_)
lstrip(s) == IF s # <<>> /\ Head(s) = " " THEN lstrip(Tail(s)) ELSE s

RECURSIVE rstrip(_)
rstrip(s) ==
    IF s # <<>> /\ s[Len(s)] = " " THEN rstrip(SubSeq(s, 1, Len(s) - 1)) ELSE s

\* str.strip()
strip(s) == rstrip(lstrip(s))

ARCHIVE_FOLDER == <<"a", "r", "c", "h", "i", "v", "e", "d">>
UNMATCHED == <<"u", "n", "m", "a", "t", "c", "h", "e", "d">>
INBOX_PREFIX == <<"I", "n", "b", "o", "x", ".">>
primary_domain == <<"a", ".", "b">>

\* ----------------------------------------------------- messages in the store
\* Headers of message m: each header is the sequence of addresses the
\* address pattern finds in its value (<<>>: header absent or no address).
Headers(m) ==
    CASE m % 3 = 1 -> [To  |-> << <<"j", "O", "@", "a", ".", "b">>,
                                 <<"a", "@", "B", ".", "a">> >>,
                       Cc  |-> << <<"b", "@", "a", ".", "b">> >>,
                       Bcc |-> << >>]
      [] m % 3 = 2 -> [To |-> << >>, Cc |-> << >>, Bcc |-> << >>]
      [] OTHER     -> [To  |-> << >>,
                       Cc  |-> << <<"a", "@", "B", ".", "a">> >>,
                       Bcc |-> << <<"j", "O", "@", "a", ".", "b">> >>]

\* extract_recipients going through the headers the other way round
BccFirst(msg) == msg.Bcc \o msg.Cc \o msg.To

\* extract_recipients: To, then Cc, then Bcc
extract_recipients(msg) == msg.To \o msg.Cc \o msg.Bcc

\* parse_email_address: ^([^@]+)@(.+)$ on the stripped address
parse_email_address(email_addr) ==
    LET s  == strip(email_addr)
        at == {i \in 1..Len(s) : s[i] = "@"}
    IN  IF at = {} THEN << <<>>, <<>> >>
        ELSE LET i == CHOOSE k \in at : \A j \in at : k <= j
             IN  IF i > 1 /\ i < Len(s)
                 THEN <<SubSeq(s, 1, i - 1), SubSeq(s, i + 1, Len(s))>>
                 ELSE << <<>>, <<>> >>

\* determine_folder, lines 130-134: the ignore folder of a user
ignore_folder(user) == ARCHIVE_FOLDER \o <<".">> \o capitalize(user)

\* determine_folder looking at the user part only
OnlyUserChecked(user, domain) == user = <<>>

\* determine_folder, line 127: not user or not domain
IsMalformed(user, domain) == user = <<>> \/ domain = <<>>

\* determine_folder with the domain routing ahead of the ignore folder
DomainFirst(user, domain, exists) ==
    IF IsMalformed(user, domain) THEN UNMATCHED
    ELSE IF domain = primary_domain
         THEN INBOX_PREFIX \o capitalize(user)
         ELSE IF exists THEN ignore_folder(user)
         ELSE INBOX_PREFIX \o capitalize(user) \o <<"@">>
                 \o replace(lower(domain), ".", "_")

\* determine_folder, lines 127-142, given the answer of folder_exists
determine_folder(user, domain, exists) ==
    IF IsMalformed(user, domain) THEN UNMATCHED
    ELSE IF exists THEN ignore_folder(user)
    ELSE IF domain = primary_domain
         THEN INBOX_PREFIX \o capitalize(user)
         ELSE INBOX_PREFIX \o capitalize(user) \o <<"@">>
                 \o replace(lower(domain), ".", "_")

\* ------------------------------------------------------- the store's replies
Msgs == 1..NMsgs

\* One command issued on the session: what, on which message / folder, with
\* which argument (for list and create: the method that makes the call), and
\* the reply ("OK", "NO", or "ERR" for a raised
\* IMAP4.error; "OSERR" for an OSError of the transport).
Cmd(c, m, f, a, o) == [cmd |-> c, msg |-> m, folder |-> f, arg |-> a, st |-> o]

\* imaplib refuses (raises IMAP4.error for) a command that is illegal in the
\* state of the session: everything but login needs a logged-in session,
\* search / fetch / copy / store / expunge / close a selected mailbox.
Legal(needsMailbox) ==
    /\ connection \in authed
    /\ needsMailbox => connection \in selected

\* The replies the store can give to a command: OK, or one of bad while the
\* fault budget lasts.
Replies(needsMailbox, bad) ==
    IF ~Legal(needsMailbox) THEN {"ERR"}
    ELSE {"OK"} \cup (IF faults < MaxFaults THEN bad ELSE {})

Issue(c, m, f, a, o, needsMailbox) ==
    /\ trace' = Append(trace, Cmd(c, m, f, a, o))
    /\ faults' = IF o # "OK" /\ Legal(needsMailbox) /\ faults < MaxFaults
                 THEN faults + 1 ELSE faults

\* The message ids a search returns, in ascending order.
RECURSIVE SortedSeq(_)
SortedSeq(S) ==
    IF S = {} THEN <<>>
    ELSE LET m == CHOOSE x \in S : \A y \in S : x <= y
         IN  <<m>> \o SortedSeq(S \ {m})

SearchResult(scope) ==
    IF scope = "ALL" THEN SortedSeq(inbox) ELSE SortedSeq(inbox \ seen)

\* -------------------------------------------------------------------- Init
InitFolders == { {}, {ARCHIVE_FOLDER},
                 {ARCHIVE_FOLDER, ignore_folder(<<"j", "O">>)} }

Init ==
    /\ connection = 0
    /\ first_pass = TRUE
    /\ pc = "idle"
    /\ op = "none"
    /\ result = "none"
    /\ message_ids = <<>>
    /\ idx = 0
    /\ target = <<>>
    /\ nsess = 0
    /\ live = {}
    /\ authed = {}
    /\ selected = {}
    /\ folders \in InitFolders
    /\ inbox = {}
    /\ seen = {}
    /\ deleted = {}
    /\ copies = {}
    /\ expunged = {}
    /\ arrived = 0
    /\ faults = 0
    /\ sweeps = 0
    /\ moves = 0
    /\ trace = <<>>
    /\ searchLog = <<>>
    /\ connAtCall = 0
    /\ args = <<>>
    /\ prevIter = "none"
    /\ cleanAt = -1
    /\ afterClean = FALSE
    /\ interrupted = FALSE

\* ------------------------------------------------------ control transfers
\* The outermost call ends: res is its return value or the exception raised.
FinishCall(res) ==
    /\ pc' = "done"
    /\ result' = res

\* process_inbox ending under run_continuous with the next iteration at
\* once, without the sleep
ReturnWithoutSleep(res) ==
    IF op = "run_continuous" /\ res = "return"
    THEN pc' = "rc_top" /\ result' = result
    ELSE FinishCall(res)

\* process_inbox ends.  Under run_continuous (lines 309-318) a normal return
\* falls through to time.sleep; any exception but KeyboardInterrupt leaves
\* the loop and run_continuous itself.
ReturnFromProcessInbox(res) ==
    IF op = "run_continuous" /\ res = "return"
    THEN pc' = "rc_sleep" /\ result' = result
    ELSE FinishCall(res)

\* The for loop of process_inbox goes on to the next msg_id (a continue, or
\* the end of the loop body), to expunge after the last one.
NextMessage ==
    /\ idx' = idx + 1
    /\ pc' = IF idx + 1 > Len(message_ids) THEN "pi_expunge" ELSE "pi_fetch"
    /\ result' = result

\* move_email ends.  Inside the sweep its value is dropped and an IMAP4.error
\* is caught by the except of the loop body (lines 285-287).
ReturnFromMove(res) ==
    IF op = "move_email"
    THEN FinishCall(res) /\ idx' = idx
    ELSE NextMessage

\* connect ends.  try_connect (lines 302-307) runs the sweep after True,
\* and makes the iteration go to sleep after False.
ReturnFromConnect(res) ==
    IF op = "run_continuous"
    THEN IF res = "True"
         THEN /\ pc' = "pi_select"
              /\ result' = result
              /\ sweeps' = sweeps + 1
         ELSE IF res = "False"
         THEN pc' = "rc_sleep" /\ result' = result /\ UNCHANGED sweeps
         ELSE FinishCall(res) /\ UNCHANGED sweeps
    ELSE FinishCall(res) /\ UNCHANGED sweeps

\* A new outermost call starts (none after a KeyboardInterrupt: the process
\* is shutting down).
Begin(name) ==
    /\ pc = "idle"
    /\ ~interrupted
    /\ op' = name
    /\ connAtCall' = connection
    /\ UNCHANGED <<trace, args, prevIter, cleanAt, afterClean, interrupted>>

\* The caller has taken the outcome of the call: its locals are gone.
Return ==
    /\ pc = "done"
    /\ pc' = "idle"
    /\ op' = "none"
    /\ result' = "none"
    /\ message_ids' = <<>>
    /\ idx' = 0
    /\ target' = <<>>
    /\ trace' = <<>>
    /\ prevIter' = "none"
    /\ connAtCall' = 0
    /\ args' = <<>>
    /\ afterClean' = FALSE
    /\ UNCHANGED <<progVars, sessVars, storeVars, faults, sweeps, moves,
                   searchLog, cleanAt, interrupted>>

histVars == <<searchLog, connAtCall, args, prevIter, interrupted, moves,
              cleanAt, afterClean>>

\* ------------------------------------------------------ connect, disconnect
\* connect() called by the environment
CallConnect ==
    /\ Begin("connect")
    /\ connection = 0
    /\ nsess < MaxSessions
    /\ pc' = "cn_open"
    /\ result' = "none"
    /\ UNCHANGED <<progVars, loopVars, sessVars, storeVars, faults, sweeps,
                   moves, searchLog>>

\* connect, line 57: self.connection = IMAP4_SSL(self.imap_server).  The
\* constructor raises IMAP4.error (bad greeting) or OSError (no transport).
ConnectOpen ==
    /\ pc = "cn_open"
    /\ \E o \in {"OK"} \cup (IF faults < MaxFaults THEN {"ERR", "OSERR"} ELSE {}) :
        /\ trace' = Append(trace, Cmd("open", 0, <<>>, "", o))
        /\ faults' = IF o = "OK" THEN faults ELSE faults + 1
        /\ IF o = "OK"
           THEN /\ nsess' = nsess + 1
                /\ connection' = nsess + 1
                /\ live' = live \cup {nsess + 1}
                /\ pc' = "cn_login"
                /\ UNCHANGED <<result, sweeps>>
           ELSE /\ ReturnFromConnect(IF o = "ERR" THEN "False" ELSE "raise_OSError")
                /\ UNCHANGED <<nsess, connection, live>>
    /\ UNCHANGED <<first_pass, op, loopVars, authed, selected, storeVars,
                   histVars>>

\* connect, lines 58-63: login; IMAP4.error is caught and False returned
ConnectLogin ==
    /\ pc = "cn_login"
    /\ \E o \in {"OK"} \cup (IF faults < MaxFaults THEN {"ERR"} ELSE {}) :
        /\ trace' = Append(trace, Cmd("login", 0, <<>>, "", o))
        /\ faults' = IF o = "OK" THEN faults ELSE faults + 1
        /\ authed' = IF o = "OK" THEN authed \cup {connection} ELSE authed
        /\ ReturnFromConnect(IF o = "OK" THEN "True" ELSE "False")
    /\ UNCHANGED <<progVars, op, loopVars, nsess, live, selected, storeVars,
                   histVars>>

\* disconnect() called by the environment; line 67
CallDisconnect ==
    /\ Begin("disconnect")
    /\ IF connection = 0
       THEN FinishCall("return")
       ELSE pc' = "dc_close" /\ result' = "none"
    /\ UNCHANGED <<progVars, loopVars, sessVars, storeVars, faults, sweeps,
                   moves, searchLog>>

\* disconnect without its finally clause: a raising close or logout leaves
\* self.connection as it was
ConnectionKeptOnError(o) == IF o = "ERR" THEN connection ELSE 0

\* disconnect, lines 75-76: the finally clause clears self.connection,
\* whatever the reply o of the last command was
ConnectionAfterDisconnect(o) == 0

\* disconnect, line 69 (and 72-76 when close raises)
DisconnectClose ==
    /\ pc = "dc_close"
    /\ \E o \in Replies(TRUE, {"NO", "ERR"}) :
        /\ Issue("close", 0, <<>>, "", o, TRUE)
        /\ IF o = "ERR"
           THEN /\ connection' = ConnectionAfterDisconnect(o)
                /\ FinishCall("raise_IMAP4")
                /\ UNCHANGED selected
           ELSE /\ pc' = "dc_logout"
                /\ selected' = IF o = "OK" THEN selected \ {connection}
                               ELSE selected
                /\ UNCHANGED <<connection, result>>
    /\ UNCHANGED <<first_pass, op, loopVars, nsess, live, authed, storeVars,
                   sweeps, histVars>>

\* disconnect, lines 70-76
DisconnectLogout ==
    /\ pc = "dc_logout"
    /\ \E o \in {"OK"} \cup (IF faults < MaxFaults THEN {"ERR"} ELSE {}) :
        /\ trace' = Append(trace, Cmd("logout", 0, <<>>, "", o))
        /\ faults' = IF o = "OK" THEN faults ELSE faults + 1
        /\ live' = IF o = "OK" THEN live \ {connection} ELSE live
        /\ FinishCall(IF o = "OK" THEN "return" ELSE "raise_IMAP4")
        /\ connection' = ConnectionAfterDisconnect(o)
    /\ UNCHANGED <<first_pass, op, loopVars, nsess, authed, selected,
                   storeVars, sweeps, histVars>>

\* ------------------------------------------------------------ gateway calls
\* folder_exists, lines 159-162: True iff the listing is OK and non-empty
folder_exists(o, folder_name) == o = "OK" /\ folder_name \in folders

\* The replies to a create: the store refuses to create an existing folder.
CreateReplies(folder_name) ==
    IF Legal(FALSE) /\ folder_name \in folders
    THEN {"NO"} \cup (IF faults < MaxFaults THEN {"ERR"} ELSE {})
    ELSE Replies(FALSE, {"NO", "ERR"})

\* The replies to a copy: the store refuses to copy into a missing folder.
CopyReplies(folder_name) ==
    IF Legal(TRUE) /\ folder_name \notin folders
    THEN {"NO"} \cup (IF faults < MaxFaults THEN {"ERR"} ELSE {})
    ELSE Replies(TRUE, {"NO", "ERR"})

\* The loop body taking the first message of the result every time
FirstMessage == message_ids[1]

\* msg_id of the running loop body / move_email
msg_id == message_ids[idx]

\* move_email(m, f) called by the environment; lines 204-205
CallMoveEmail ==
    /\ Begin("move_email")
    /\ moves < MaxMoves
    /\ moves' = moves + 1
    /\ \E m \in inbox, f \in {UNMATCHED, INBOX_PREFIX \o <<"J", "o">>} :
        IF connection = 0
        THEN FinishCall("raise_ValueError") /\ UNCHANGED loopVars
        ELSE /\ pc' = "mv_exists"
             /\ result' = "none"
             /\ message_ids' = <<m>>
             /\ idx' = 1
             /\ target' = f
    /\ UNCHANGED <<progVars, sessVars, storeVars, faults, sweeps, searchLog>>

\* move_email creating the target folder whatever the check returned
AlwaysCreate(exists) == "mv_create"

\* move_email, lines 208-209: create_folder is called iff folder_exists
\* returned False
AfterExistenceCheck(exists) == IF exists THEN "mv_copy" ELSE "mv_create"

\* move_email, line 208: folder_exists(target_folder)
MoveExists ==
    /\ pc = "mv_exists"
    /\ \E o \in Replies(FALSE, {"NO", "ERR"}) :
        /\ Issue("list", msg_id, target, "move_email", o, FALSE)
        /\ IF o = "ERR"
           THEN ReturnFromMove("raise_IMAP4")
           ELSE /\ pc' = AfterExistenceCheck(folder_exists(o, target))
                /\ UNCHANGED <<idx, result>>
    /\ UNCHANGED <<progVars, op, message_ids, target, sessVars, storeVars,
                   sweeps, histVars>>

\* move_email, line 209: create_folder(target_folder), its value dropped
MoveCreate ==
    /\ pc = "mv_create"
    /\ \E o \in CreateReplies(target) :
        /\ Issue("create", msg_id, target, "move_email", o, FALSE)
        /\ folders' = IF o = "OK" THEN folders \cup {target} ELSE folders
        /\ IF o = "ERR"
           THEN ReturnFromMove("raise_IMAP4")
           ELSE pc' = "mv_copy" /\ UNCHANGED <<idx, result>>
    /\ UNCHANGED <<progVars, op, message_ids, target, sessVars, inbox, seen,
                   deleted, copies, expunged, arrived, sweeps, histVars>>

\* move_email flagging the source whenever the copy call returned
FlagAfterAnyCopy(o) == o # "ERR"

\* move_email, line 213: the source message is flagged iff the copy was OK
FlagAfterCopy(o) == o = "OK"

\* move_email, lines 212-222: copy, False when the copy is refused
MoveCopy ==
    /\ pc = "mv_copy"
    /\ \E o \in CopyReplies(target) :
        /\ Issue("copy", msg_id, target, "", o, TRUE)
        /\ copies' = IF o = "OK" THEN copies \cup {<<msg_id, target>>}
                     ELSE copies
        /\ IF FlagAfterCopy(o)
           THEN pc' = "mv_store" /\ UNCHANGED <<idx, result>>
           ELSE ReturnFromMove(IF o = "NO" THEN "False" ELSE "raise_IMAP4")
    /\ UNCHANGED <<progVars, op, message_ids, target, sessVars, folders,
                   inbox, seen, deleted, expunged, arrived, sweeps, histVars>>

\* move_email, lines 217-218: store +FLAGS \Deleted (status not looked at)
MoveStore ==
    /\ pc = "mv_store"
    /\ \E o \in Replies(TRUE, {"NO", "ERR"}) :
        /\ Issue("store", msg_id, <<>>, "+FLAGS \\Deleted", o, TRUE)
        /\ deleted' = IF o = "OK" THEN deleted \cup {msg_id} ELSE deleted
        /\ ReturnFromMove(IF o = "ERR" THEN "raise_IMAP4" ELSE "True")
    /\ UNCHANGED <<progVars, op, message_ids, target, sessVars, folders,
                   inbox, seen, copies, expunged, arrived, sweeps, histVars>>

\* ---------------------------------------------------- direct gateway calls
\* Folder names the environment passes to folder_exists and create_folder
FolderNames == {ARCHIVE_FOLDER, INBOX_PREFIX \o <<"J", "o">>}

\* User and domain parts the environment passes to determine_folder
Users == {<<>>, <<"j", "O">>, <<"b">>}
Domains == {<<>>, primary_domain, <<"A", ".", "b">>, <<"B", ".", "a">>}

\* An outermost call with arguments a starts; it runs to its end in the
\* same step (it issues one command at most).
Called(name, a) ==
    /\ pc = "idle"
    /\ ~interrupted
    /\ op' = name
    /\ connAtCall' = connection
    /\ args' = a
    /\ UNCHANGED <<cleanAt, afterClean>>

\* folder_exists, lines 159-165: the value for reply o to the listing
FolderExistsResult(o, folder_name) ==
    IF o = "ERR" THEN "raise_IMAP4"
    ELSE IF folder_exists(o, folder_name) THEN "True" ELSE "False"

\* folder_exists(f) called by the environment; lines 154-165
CallFolderExists ==
    /\ \E f \in FolderNames :
        /\ Called("folder_exists", <<f>>)
        /\ IF connection = 0
           THEN FinishCall("raise_ValueError") /\ UNCHANGED <<trace, faults>>
           ELSE \E o \in Replies(FALSE, {"NO", "ERR"}) :
                   /\ Issue("list", 0, f, "folder_exists", o, FALSE)
                   /\ FinishCall(FolderExistsResult(o, f))
    /\ UNCHANGED <<progVars, loopVars, sessVars, storeVars, sweeps, moves,
                   searchLog, prevIter, interrupted>>

\* create_folder, lines 178-179: the value without a connection
CreateFolderWithoutConnection == "False"

\* create_folder, lines 181-190: the value for reply o to the create
CreateFolderResult(o) ==
    CASE o = "OK" -> "True"
      [] o = "ERR" -> "raise_IMAP4"
      [] OTHER -> "False"

\* create_folder(f) called by the environment; lines 177-190
CallCreateFolder ==
    /\ moves < MaxMoves
    /\ moves' = moves + 1
    /\ \E f \in FolderNames :
        /\ Called("create_folder", <<f>>)
        /\ IF connection = 0
           THEN /\ FinishCall(CreateFolderWithoutConnection)
                /\ UNCHANGED <<trace, faults, folders>>
           ELSE \E o \in CreateReplies(f) :
                   /\ Issue("create", 0, f, "create_folder", o, FALSE)
                   /\ folders' = IF o = "OK" THEN folders \cup {f} ELSE folders
                   /\ FinishCall(CreateFolderResult(o))
    /\ UNCHANGED <<progVars, loopVars, sessVars, inbox, seen, deleted, copies,
                   expunged, arrived, sweeps, searchLog, prevIter,
                   interrupted>>

\* determine_folder(u, d) called by the environment; lines 127-142 with
\* folder_exists (lines 154-165) for the ignore folder.  Its outcome is a
\* str: the folder name returned, or the one-element sequence that names the
\* exception raised.
CallDetermineFolder ==
    /\ \E u \in Users, d \in Domains :
        /\ Called("determine_folder", <<u, d>>)
        /\ IF IsMalformed(u, d)
           THEN /\ FinishCall(determine_folder(u, d, FALSE))
                /\ UNCHANGED <<trace, faults>>
           ELSE IF connection = 0
           THEN /\ FinishCall(<<"raise_ValueError">>)
                /\ UNCHANGED <<trace, faults>>
           ELSE \E o \in Replies(FALSE, {"NO", "ERR"}) :
                   /\ Issue("list", 0, ignore_folder(u), "determine_folder", o,
                            FALSE)
                   /\ FinishCall(IF o = "ERR" THEN <<"raise_IMAP4">>
                                 ELSE determine_folder(u, d,
                                          folder_exists(o, ignore_folder(u))))
    /\ UNCHANGED <<progVars, loopVars, sessVars, storeVars, sweeps, moves,
                   searchLog, prevIter, interrupted>>

\* ------------------------------------------------------------ process_inbox
\* process_inbox raising when it has no connection
ProcessInboxRaisesWithoutConnection == "raise_ValueError"

\* process_inbox, lines 229-231: without a connection it logs an error and
\* returns
ProcessInboxWithoutConnection == "return"

\* process_inbox() called by the environment; lines 229-231
CallProcessInbox ==
    /\ Begin("process_inbox")
    /\ sweeps < MaxSweeps
    /\ IF connection = 0
       THEN FinishCall(ProcessInboxWithoutConnection) /\ UNCHANGED sweeps
       ELSE pc' = "pi_select" /\ result' = "none" /\ sweeps' = sweeps + 1
    /\ UNCHANGED <<progVars, loopVars, sessVars, storeVars, faults, moves,
                   searchLog>>

\* process_inbox, line 234: select('INBOX'), its status dropped
SweepSelect ==
    /\ pc = "pi_select"
    /\ \E o \in Replies(FALSE, {"NO", "ERR"}) :
        /\ Issue("select", 0, <<>>, "INBOX", o, FALSE)
        /\ selected' = IF o = "OK" THEN selected \cup {connection}
                       ELSE IF o = "NO" THEN selected \ {connection}
                       ELSE selected
        /\ IF o = "ERR"
           THEN ReturnFromProcessInbox("raise_IMAP4")
           ELSE pc' = "pi_arch_exists" /\ UNCHANGED result
    /\ afterClean' = (cleanAt = arrived)
    /\ cleanAt' = -1
    /\ UNCHANGED <<progVars, op, loopVars, nsess, live, authed, storeVars,
                   sweeps, searchLog, connAtCall, args, prevIter,
                   interrupted, moves>>

\* process_inbox, line 236: folder_exists(ARCHIVE_FOLDER)
SweepArchiveExists ==
    /\ pc = "pi_arch_exists"
    /\ \E o \in Replies(FALSE, {"NO", "ERR"}) :
        /\ Issue("list", 0, ARCHIVE_FOLDER, "process_inbox", o, FALSE)
        /\ IF o = "ERR"
           THEN ReturnFromProcessInbox("raise_IMAP4")
           ELSE /\ pc' = IF folder_exists(o, ARCHIVE_FOLDER) THEN "pi_search"
                         ELSE "pi_arch_create"
                /\ UNCHANGED result
    /\ UNCHANGED <<progVars, op, loopVars, sessVars, storeVars, sweeps,
                   histVars>>

\* process_inbox, line 237: create_folder(ARCHIVE_FOLDER), its value dropped
SweepArchiveCreate ==
    /\ pc = "pi_arch_create"
    /\ \E o \in CreateReplies(ARCHIVE_FOLDER) :
        /\ Issue("create", 0, ARCHIVE_FOLDER, "process_inbox", o, FALSE)
        /\ folders' = IF o = "OK" THEN folders \cup {ARCHIVE_FOLDER}
                      ELSE folders
        /\ IF o = "ERR"
           THEN ReturnFromProcessInbox("raise_IMAP4")
           ELSE pc' = "pi_search" /\ UNCHANGED result
    /\ UNCHANGED <<progVars, op, loopVars, sessVars, inbox, seen, deleted,
                   copies, expunged, arrived, sweeps, histVars>>

\* process_inbox searching every message in every sweep
SearchAlwaysAll == "ALL"

\* process_inbox, line 240
search_type == IF ~first_pass THEN "UNSEEN" ELSE "ALL"

\* process_inbox without line 242: the flag is never cleared
FlagNeverCleared(o) == first_pass

\* The flag after a search whose reply was o: line 242 runs once the search
\* call has returned, whatever its status.
FlagAfterSearch(o) == IF o = "ERR" THEN first_pass ELSE FALSE

\* process_inbox, lines 240-248
SweepSearch ==
    /\ pc = "pi_search"
    /\ \E o \in Replies(TRUE, {"NO", "ERR"}) :
        /\ Issue("search", 0, <<>>, search_type, o, TRUE)
        /\ searchLog' = Append(searchLog, [scope |-> search_type, st |-> o,
                                            sess |-> connection])
        /\ first_pass' = FlagAfterSearch(o)
        /\ CASE o = "ERR" ->
                  /\ ReturnFromProcessInbox("raise_IMAP4")
                  /\ UNCHANGED <<message_ids, idx>>
             [] o = "NO" ->
                  /\ ReturnFromProcessInbox("return")
                  /\ UNCHANGED <<message_ids, idx>>
             [] OTHER ->
                  /\ message_ids' = SearchResult(search_type)
                  /\ idx' = 1
                  /\ pc' = IF SearchResult(search_type) = <<>>
                           THEN "pi_expunge" ELSE "pi_fetch"
                  /\ UNCHANGED result
    /\ UNCHANGED <<connection, op, target, sessVars, storeVars, sweeps,
                   moves, connAtCall, args, prevIter, cleanAt, afterClean,
                   interrupted>>

\* What the loop body does with a fetch whose reply was o (lines 255-266):
\* go on with the message, skip it, or die of the TypeError that
\* msg_data[0][1] raises when msg_data is [None].
FetchDisposition(o) ==
    CASE o = "OK" -> "route"
      [] o = "NONE" -> "raise_TypeError"
      [] OTHER -> "continue"

\* process_inbox sending a message without recipients to the archive root
NoRecipientToArchive == ARCHIVE_FOLDER

\* process_inbox, line 274: the folder of a message without recipients
NoRecipientTarget == UNMATCHED

\* process_inbox, lines 253-280: fetch, extract_recipients,
\* parse_email_address and the first lines of determine_folder
SweepFetch ==
    /\ pc = "pi_fetch"
    /\ \E o \in Replies(TRUE, {"NO", "NONBYTES", "NONE", "ERR"}) :
        /\ Issue("fetch", msg_id, <<>>, "(RFC822)", o, TRUE)
        /\ seen' = IF o = "OK" THEN seen \cup {msg_id} ELSE seen
        /\ CASE FetchDisposition(o) = "raise_TypeError" ->
                  /\ ReturnFromProcessInbox("raise_TypeError")
                  /\ UNCHANGED <<idx, target>>
             [] FetchDisposition(o) = "continue" ->
                  /\ NextMessage
                  /\ UNCHANGED target
             [] OTHER ->
                  LET recipients == extract_recipients(Headers(msg_id))
                      ud == parse_email_address(recipients[1])
                  IN  /\ IF recipients = <<>>
                         THEN target' = NoRecipientTarget /\ pc' = "mv_exists"
                         ELSE IF IsMalformed(ud[1], ud[2])
                         THEN /\ target' = determine_folder(ud[1], ud[2], FALSE)
                              /\ pc' = "mv_exists"
                         ELSE target' = target /\ pc' = "df_exists"
                      /\ UNCHANGED <<idx, result>>
    /\ UNCHANGED <<progVars, op, message_ids, sessVars, folders, inbox,
                   deleted, copies, expunged, arrived, sweeps, histVars>>

\* determine_folder, lines 134-142: folder_exists(ignore_folder)
RouteExists ==
    /\ pc = "df_exists"
    /\ LET ud == parse_email_address(extract_recipients(Headers(msg_id))[1])
       IN  \E o \in Replies(FALSE, {"NO", "ERR"}) :
            /\ Issue("list", msg_id, ignore_folder(ud[1]), "determine_folder", o,
                     FALSE)
            /\ IF o = "ERR"
               THEN NextMessage /\ UNCHANGED target
               ELSE /\ target' = determine_folder(ud[1], ud[2],
                                     folder_exists(o, ignore_folder(ud[1])))
                    /\ pc' = "mv_exists"
                    /\ UNCHANGED <<idx, result>>
    /\ UNCHANGED <<progVars, op, message_ids, sessVars, storeVars, sweeps,
                   histVars>>

\* The fetch of every message the search of this sweep found was answered
\* OK (lines 253-257).
EveryMessageFetched ==
    \A k \in DOMAIN message_ids :
        \E i \in DOMAIN trace :
            /\ trace[i].cmd = "fetch" /\ trace[i].msg = message_ids[k]
            /\ trace[i].st = "OK"

\* An expunge that removes every message that was read
RemovedSeen(o) == IF o = "OK" THEN inbox \cap seen ELSE {}

\* The messages an expunge answered o removes from INBOX (line 290): the ones
\* flagged \Deleted
Removed(o) == IF o = "OK" THEN inbox \cap deleted ELSE {}

\* process_inbox, line 290: expunge
SweepExpunge ==
    /\ pc = "pi_expunge"
    /\ \E o \in Replies(TRUE, {"NO", "ERR"}) :
        /\ Issue("expunge", 0, <<>>, "", o, TRUE)
        /\ inbox' = inbox \ Removed(o)
        /\ deleted' = IF o = "OK" THEN {} ELSE deleted
        /\ expunged' = expunged \cup Removed(o)
        /\ ReturnFromProcessInbox(IF o = "ERR" THEN "raise_IMAP4" ELSE "return")
        /\ cleanAt' = IF o # "ERR" /\ EveryMessageFetched THEN arrived ELSE -1
    /\ UNCHANGED <<progVars, op, loopVars, sessVars, folders, seen, copies,
                   arrived, sweeps, searchLog, connAtCall, args, prevIter,
                   interrupted, moves, afterClean>>

\* ----------------------------------------------------------- run_continuous
\* run_continuous() called by the environment
CallRunContinuous ==
    /\ Begin("run_continuous")
    /\ pc' = "rc_top"
    /\ result' = "none"
    /\ UNCHANGED <<progVars, loopVars, sessVars, storeVars, faults, sweeps,
                   moves, searchLog>>

\* A try_connect that connects in every iteration
AlwaysConnect == TRUE

\* try_connect, line 303: connect() is called only when there is no
\* connection object
NeedsConnect == connection = 0

\* run_continuous, lines 309-312 with try_connect (302-307): connect when
\* there is no connection, otherwise straight into process_inbox
LoopTop ==
    /\ pc = "rc_top"
    /\ sweeps < MaxSweeps
    /\ IF NeedsConnect
       THEN /\ nsess < MaxSessions
            /\ pc' = "cn_open"
            /\ UNCHANGED sweeps
       ELSE /\ pc' = "pi_select"
            /\ sweeps' = sweeps + 1
    /\ UNCHANGED <<progVars, op, result, loopVars, sessVars, storeVars,
                   faults, trace, histVars>>

\* How an iteration ended, from the commands it issued.
IterationOutcome ==
    IF \E i \in DOMAIN trace : trace[i].cmd \in {"open", "login"}
                                /\ trace[i].st # "OK"
    THEN "connect_failed"
    ELSE "swept"

\* run_continuous, line 318: time.sleep(check_interval), then the next
\* iteration
LoopSleep ==
    /\ pc = "rc_sleep"
    /\ pc' = "rc_top"
    /\ prevIter' = IterationOutcome
    /\ trace' = <<>>
    /\ afterClean' = FALSE
    /\ UNCHANGED <<progVars, op, result, loopVars, sessVars, storeVars,
                   faults, sweeps, moves, searchLog, connAtCall, args,
                   cleanAt, interrupted>>

\* How run_continuous ends when a KeyboardInterrupt arrives at pc: inside
\* the try (lines 310-316) it is caught and the loop left; time.sleep
\* (line 318) is outside the try.
InterruptResult(at) == IF at = "rc_sleep" THEN "raise_KeyboardInterrupt"
                       ELSE "return"

\* A KeyboardInterrupt is delivered to run_continuous
Interrupt ==
    /\ op = "run_continuous"
    /\ pc \notin {"idle", "done"}
    /\ interrupted' = TRUE
    /\ FinishCall(InterruptResult(pc))
    /\ UNCHANGED <<progVars, op, loopVars, sessVars, storeVars, faults,
                   sweeps, moves, trace, searchLog, connAtCall, args,
                   prevIter, cleanAt, afterClean>>

\* ------------------------------------------------------------- environment
\* A new message arrives in INBOX between two calls or during the sleep.
Deliver ==
    /\ pc \in {"idle", "rc_sleep"}
    /\ arrived < NMsgs
    /\ arrived' = arrived + 1
    /\ inbox' = inbox \cup {arrived + 1}
    /\ UNCHANGED <<progVars, pc, op, result, loopVars, sessVars, folders,
                   seen, deleted, copies, expunged, faults, sweeps, trace,
                   histVars>>

Next ==
    \/ CallConnect
    \/ ConnectOpen
    \/ ConnectLogin
    \/ CallDisconnect
    \/ DisconnectClose
    \/ DisconnectLogout
    \/ CallMoveEmail
    \/ MoveExists
    \/ MoveCreate
    \/ MoveCopy
    \/ MoveStore
    \/ CallFolderExists
    \/ CallCreateFolder
    \/ CallDetermineFolder
    \/ CallProcessInbox
    \/ SweepSelect
    \/ SweepArchiveExists
    \/ SweepArchiveCreate
    \/ SweepSearch
    \/ SweepFetch
    \/ RouteExists
    \/ SweepExpunge
    \/ CallRunContinuous
    \/ LoopTop
    \/ LoopSleep
    \/ Interrupt
    \/ Return
    \/ Deliver

Spec == Init /\ [][Next]_vars

TypeOK ==
    /\ connection \in 0..MaxSessions
    /\ first_pass \in BOOLEAN
    /\ idx \in 0..(NMsgs + 1)
    /\ faults \in 0..MaxFaults
    /\ sweeps \in 0..MaxSweeps
    /\ nsess \in 0..MaxSessions
    /\ inbox \subseteq Msgs

\* =============================================================== properties
SweepPcs == {"pi_select", "pi_arch_exists", "pi_arch_create", "pi_search",
             "pi_fetch", "df_exists", "mv_exists", "mv_create", "mv_copy",
             "mv_store", "pi_expunge"}

\* A sweep has run to its end (returned or raised) without being interrupted.
SweepEnded ==
    \/ op = "process_inbox" /\ pc = "done" /\ connAtCall # 0
    \/ op = "run_continuous" /\ pc = "rc_sleep"
    \/ op = "run_continuous" /\ pc = "done" /\ ~interrupted

SearchSucceeded ==
    \E i \in DOMAIN trace : trace[i].cmd = "search" /\ trace[i].st = "OK"

Entries(c, m) == {i \in DOMAIN trace : trace[i].cmd = c /\ trace[i].msg = m}

Expunges == Entries("expunge", 0)

\* move_email calls made for message m: each starts with its existence check
MoveCalls(m) == {i \in Entries("list", m) : trace[i].arg = "move_email"}

\* ---- C1 as stated: the first search issued by the instance has scope ALL
\* and every later one has scope UNSEEN.
C1_FirstAllThenUnseen ==
    \A i \in DOMAIN searchLog :
        searchLog[i].scope = IF i = 1 THEN "ALL" ELSE "UNSEEN"

\* ---- C1 (amended): a search has scope ALL as long as no earlier search
\* call of the instance has returned (every earlier one raised), and scope
\* UNSEEN once one has returned, with whatever status and on whatever
\* session; the first-pass flag is false exactly from the first returned
\* search on, so it never goes back to true.
C1_ScopeFollowsReturnedSearch ==
    /\ \A i \in DOMAIN searchLog :
          searchLog[i].scope =
              IF \E j \in 1..(i - 1) : searchLog[j].st # "ERR"
              THEN "UNSEEN" ELSE "ALL"
    /\ first_pass = (\A j \in DOMAIN searchLog : searchLog[j].st = "ERR")

\* C1 witness: a second sweep on a new session, after a first one whose
\* search returned, searched with scope UNSEEN.
C1_Witness ==
    /\ Len(searchLog) = 2
    /\ searchLog[1].scope = "ALL" /\ searchLog[1].st = "OK"
    /\ searchLog[2].scope = "UNSEEN"
    /\ searchLog[1].sess # searchLog[2].sess

\* ---- C2: the first-pass flag is false only after a search that succeeded
\* (a search the store answered with a non-OK status leaves it true).
C2_FlagClearedOnlyBySuccess ==
    ~first_pass => \E j \in DOMAIN searchLog : searchLog[j].st = "OK"

\* ---- C3: when a sweep whose search succeeded has ended, every message of
\* the search result was fetched, every message whose fetch was OK and none
\* of whose commands raised was copied, and expunge was issued exactly once.
C3_SweepResilient ==
    (SweepEnded /\ SearchSucceeded) =>
        /\ \A k \in DOMAIN message_ids : Entries("fetch", message_ids[k]) # {}
        /\ \A k \in DOMAIN message_ids :
              LET m == message_ids[k]
              IN  (/\ \E i \in Entries("fetch", m) : trace[i].st = "OK"
                   /\ \A i \in DOMAIN trace :
                         trace[i].msg = m => trace[i].st # "ERR")
                  => Entries("copy", m) # {}
        /\ Cardinality(Expunges) = 1

\* ---- C4: when a sweep whose search succeeded has ended, exactly one
\* expunge was issued, it is the last command of the sweep, every message of
\* the result was handled before it, and move_email was called exactly once
\* for each message whose fetch was OK and for no other.
C4_OneExpungeLast ==
    (SweepEnded /\ SearchSucceeded) =>
        /\ Cardinality(Expunges) = 1
        /\ trace[Len(trace)].cmd = "expunge"
        /\ \A k \in DOMAIN message_ids : Entries("fetch", message_ids[k]) # {}
        /\ \A k \in DOMAIN message_ids :
              LET m == message_ids[k]
              IN  Cardinality(MoveCalls(m)) =
                     IF \E i \in Entries("fetch", m) : trace[i].st = "OK"
                     THEN 1 ELSE 0

\* ---- C5: after a select that failed no search, fetch, copy, flag or
\* expunge is issued in the sweep; after a search that failed no fetch,
\* existence check, create, copy, flag or expunge is issued in the sweep.
C5_AbortOnSelectOrSearchFailure ==
    \A i \in DOMAIN trace : \A j \in DOMAIN trace :
        /\ (trace[i].cmd = "select" /\ trace[i].st # "OK" /\ j > i)
               => trace[j].cmd \notin {"search", "fetch", "copy", "store",
                                       "expunge"}
        /\ (trace[i].cmd = "search" /\ trace[i].st # "OK" /\ j > i)
               => trace[j].cmd \notin {"fetch", "list", "create", "copy",
                                       "store", "expunge"}

\* A sweep-level command (select, the archive-root check or create, search,
\* expunge) of the current iteration raised a protocol error.
SweepCommandRaised ==
    \E i \in DOMAIN trace :
        /\ trace[i].st = "ERR"
        /\ \/ trace[i].cmd \in {"select", "search", "expunge"}
           \/ trace[i].cmd \in {"list", "create"}
                  /\ trace[i].arg = "process_inbox"

\* ---- C6: a protocol error raised by a sweep-level command does not end
\* run_continuous: when run_continuous has ended after one, it was an
\* interrupt that ended it.
C6_LoopEndsOnlyOnInterrupt ==
    (op = "run_continuous" /\ pc = "done" /\ SweepCommandRaised)
        => interrupted

\* ---- C7: connect() ends by returning True or False; after False the
\* processor has no connection, after True it holds the new, logged-in
\* session.
C7_ConnectOutcome ==
    (op = "connect" /\ pc = "done") =>
        /\ result \in {"True", "False"}
        /\ result = "False" => connection = 0
        /\ result = "True" => (connection = nsess /\ connection \in authed)

\* ---- C8: in run_continuous an iteration whose connect failed issues no
\* other command, the iteration after it starts with a connect attempt, and
\* the sweep only runs on a session whose login succeeded.
C8_NoSweepWithoutLogin ==
    op = "run_continuous" =>
        /\ pc \in SweepPcs => connection \in authed
        /\ IterationOutcome = "connect_failed" =>
              \A i \in DOMAIN trace : trace[i].cmd \in {"open", "login"}
        /\ (prevIter = "connect_failed" /\ trace # <<>>) =>
              trace[1].cmd = "open"

MoveList(i, m, f) ==
    /\ i \in DOMAIN trace
    /\ trace[i].cmd = "list" /\ trace[i].arg = "move_email"
    /\ trace[i].msg = m /\ trace[i].folder = f

MoveCreated(i, m, f) ==
    /\ i \in DOMAIN trace
    /\ trace[i].cmd = "create" /\ trace[i].arg = "move_email"
    /\ trace[i].msg = m /\ trace[i].folder = f

C12_CreateFolderNeverRaises ==
    (op = "create_folder" /\ pc = "done" /\ connAtCall \in authed) =>
        /\ result \in {"True", "False"}
        /\ result = "True" <=> (trace # <<>> /\ trace[1].st = "OK")

\* ---- C13: a gateway operation (folder_exists, create_folder, move_email)
\* called on a processor without connection ends by raising the
\* no-connection error, and issues no command.
C13_NoConnectionSurfaced ==
    (/\ op \in {"folder_exists", "create_folder", "move_email"}
     /\ pc = "done"
     /\ connAtCall = 0)
        => (result = "raise_ValueError" /\ trace = <<>>)

\* ---- C14: a process_inbox call on a processor without connection ends at
\* once by returning, issues no command and changes neither the first-pass
\* flag nor the connection; so as long as no search has been issued the flag
\* is true and the first search has scope ALL.
C14_NoSweepWithoutConnection ==
    /\ [][(pc = "idle" /\ op' = "process_inbox" /\ connection = 0) =>
             /\ pc' = "done"
             /\ result' = "return"
             /\ trace' = <<>>
             /\ first_pass' = first_pass
             /\ connection' = connection
             /\ searchLog' = searchLog]_vars
    /\ [](searchLog = <<>> => (first_pass /\ search_type = "ALL"))

\* C14 witness: process_inbox called after a disconnect has returned, the
\* flag still true.
C14_Witness ==
    /\ op = "process_inbox" /\ pc = "done"
    /\ nsess > 0
    /\ connAtCall = 0 /\ connection = 0
    /\ result = "return"
    /\ trace = <<>>
    /\ first_pass

\* The archive root was there when the running sweep began, and its
\* existence check was not answered NO.
ArchiveRootFound ==
    /\ ARCHIVE_FOLDER \in folders
    /\ \A i \in DOMAIN trace :
          /\ (trace[i].cmd = "list" /\ trace[i].arg = "process_inbox")
                => trace[i].st # "NO"
          /\ (trace[i].cmd = "create" /\ trace[i].arg = "process_inbox")
                => trace[i].st # "OK"

\* ---- C15: a sweep that begins right after a sweep that returned with
\* every message it found fetched, nothing delivered in between and the
\* archive root present (and reported present), issues no folder-create, no
\* existence check of a target folder, no copy and no flag command.
C15_SecondSweepIdle ==
    (afterClean /\ ArchiveRootFound)
        => \A i \in DOMAIN trace :
              /\ trace[i].cmd \notin {"create", "copy", "store"}
              /\ ~(trace[i].cmd = "list" /\ trace[i].arg = "move_email")

\* C15 witness: the second of two sweeps has ended with its expunge, the
\* first one having relocated and expunged a message.
C15_Witness ==
    /\ afterClean
    /\ SweepEnded
    /\ trace # <<>> /\ trace[Len(trace)].cmd = "expunge"
    /\ trace[Len(trace)].st = "OK"
    /\ ArchiveRootFound
    /\ expunged # {}
    /\ \E c \in copies : c[1] \in expunged

\* A direct determine_folder(user, domain) call has ended.
RouteDone == op = "determine_folder" /\ pc = "done"

\* ... on a connected processor, with a user and a domain, and the
\* existence predicate returned.
RouteAnswered ==
    /\ RouteDone
    /\ args[1] # <<>> /\ args[2] # <<>>
    /\ trace # <<>> /\ trace[1].st # "ERR"

\* The existence predicate reported the folder it was asked about present.
RouteFoundIgnore == folder_exists(trace[1].st, trace[1].folder)

\* The determine_folder entries of the trace for message m
RouteChecks(m) ==
    {i \in Entries("list", m) : trace[i].arg = "determine_folder"}

C17_UnmatchedWithoutCheck ==
    /\ RouteDone =>
          IF args[1] = <<>> \/ args[2] = <<>>
          THEN result = UNMATCHED /\ trace = <<>>
          ELSE IF connAtCall = 0
          THEN result = <<"raise_ValueError">> /\ trace = <<>>
          ELSE /\ Len(trace) = 1
               /\ trace[1].cmd = "list"
               /\ trace[1].arg = "determine_folder"
               /\ trace[1].folder
                      = ARCHIVE_FOLDER \o <<".">> \o capitalize(args[1])
    /\ \A m \in Msgs : Cardinality(RouteChecks(m)) <= 1

\* C17 witness: determine_folder called for a user whose message an earlier
\* sweep has routed makes its existence check again.
C17_Witness ==
    /\ RouteAnswered
    /\ args[1] = <<"j", "O">>
    /\ Len(trace) = 1
    /\ 1 \in seen
    /\ \E c \in copies : c[1] = 1

\* userFolder as the specification words it: first character upper-cased,
\* the rest unchanged.
UserFolderRestUnchanged(u) == <<CharUpper(u[1])>> \o Tail(u)

\* userFolder with the rest of the user part lower-cased
UserFolderRestLowered(u) == <<CharUpper(u[1])>> \o lower(Tail(u))

\* domainFolder: the domain lower-cased, every "." replaced by "_"
DomainFolder(d) == [i \in 1..Len(d) |-> IF d[i] = "." THEN "_" ELSE CharLower(d[i])]

MoveCmds == {"list", "create", "copy", "store"}

\* The sweep goes on after the commands it issued for message m: what
\* follows them is the fetch of another message or the expunge, and the
\* sweep does not end on them.
GoesOn(m) ==
    /\ \A i \in DOMAIN trace :
          (/\ trace[i].msg = m /\ trace[i].cmd \in MoveCmds
           /\ i < Len(trace) /\ trace[i + 1].msg # m)
              => trace[i + 1].cmd \in {"fetch", "expunge"}
    /\ (/\ trace # <<>>
        /\ trace[Len(trace)].msg = m
        /\ trace[Len(trace)].cmd \in MoveCmds
        /\ ~interrupted)
          => pc \in {"mv_exists", "mv_create", "mv_copy", "mv_store",
                     "pi_fetch", "pi_expunge"}

\* ---- C19: in a sweep, for a message without recipient address no
\* existence check of determine_folder is issued, an OK fetch of it is
\* followed at once by move_email to "unmatched" (so every copy of it goes
\* there), and after its move_email, however that ended, the sweep goes on
\* with the next message or the expunge.
C19_NoRecipientUnmatched ==
    op \in {"process_inbox", "run_continuous"} =>
        \A m \in Msgs :
            (Headers(m).To = <<>> /\ Headers(m).Cc = <<>>
                 /\ Headers(m).Bcc = <<>>) =>
                /\ RouteChecks(m) = {}
                /\ \A i \in Entries("fetch", m) :
                      trace[i].st = "OK" =>
                          IF i < Len(trace)
                          THEN MoveList(i + 1, m, UNMATCHED)
                          ELSE \/ interrupted
                               \/ /\ pc = "mv_exists" /\ msg_id = m
                                  /\ target = UNMATCHED
                /\ \A i \in Entries("copy", m) : trace[i].folder = UNMATCHED
                /\ GoesOn(m)

\* C19 witness: a sweep has ended in which the message without recipients,
\* handled after another message, was copied to "unmatched" and flagged.
C19_Witness ==
    /\ SweepEnded
    /\ trace[Len(trace)].cmd = "expunge"
    /\ \E i \in Entries("fetch", 2) :
          /\ i > 4
          /\ MoveList(i + 1, 2, UNMATCHED)
    /\ \E i \in Entries("copy", 2) : trace[i].st = "OK"
    /\ \E i \in Entries("store", 2) : trace[i].st = "OK"

\* The first address of a message: the first one of To, of Cc when To has
\* none, of Bcc when Cc has none either.
FirstRecipient(m) ==
    IF Headers(m).To # <<>> THEN Headers(m).To[1]
    ELSE IF Headers(m).Cc # <<>> THEN Headers(m).Cc[1]
    ELSE Headers(m).Bcc[1]

HasRecipients(m) ==
    Headers(m).To # <<>> \/ Headers(m).Cc # <<>> \/ Headers(m).Bcc # <<>>

\* The folder the routing gives for address a when the existence predicate
\* answered exists.
RoutedFolder(a, exists) ==
    LET ud == parse_email_address(a)
    IN  IF exists THEN ARCHIVE_FOLDER \o <<".">> \o UserFolderRestLowered(ud[1])
        ELSE IF ud[2] = primary_domain
        THEN INBOX_PREFIX \o UserFolderRestLowered(ud[1])
        ELSE INBOX_PREFIX \o UserFolderRestLowered(ud[1]) \o <<"@">>
                \o DomainFolder(ud[2])

SweepBegun == \E i \in DOMAIN trace : trace[i].cmd = "select"

SweepReachedExpunge == trace # <<>> /\ trace[Len(trace)].cmd = "expunge"

CmdRank(e) ==
    CASE e.cmd = "fetch" -> 1
      [] e.cmd = "list" /\ e.arg = "determine_folder" -> 2
      [] e.cmd = "list" -> 3
      [] e.cmd = "create" -> 4
      [] e.cmd = "copy" -> 5
      [] OTHER -> 6

\* Position of message m in the search result
Pos(m) == CHOOSE k \in DOMAIN message_ids : message_ids[k] = m

\* ---- C22: in a sweep every command for a message comes after the search
\* and before the expunge, the commands for the messages come in the order
\* of the search result, one message after the other, and the commands for
\* one message come in the order fetch, existence checks, create, copy, flag,
\* each at most once.
C22_OneMessageAtATime ==
    op \in {"process_inbox", "run_continuous"} =>
        \A i \in DOMAIN trace :
            trace[i].msg # 0 =>
                /\ \E k \in DOMAIN message_ids : message_ids[k] = trace[i].msg
                /\ \E h \in 1..(i - 1) :
                      trace[h].cmd = "search" /\ trace[h].st = "OK"
                /\ \A j \in (i + 1)..Len(trace) :
                      /\ trace[j].cmd \notin {"select", "search"}
                      /\ trace[j].msg # 0 =>
                            /\ Pos(trace[i].msg) <= Pos(trace[j].msg)
                            /\ trace[j].msg = trace[i].msg =>
                                  CmdRank(trace[i]) < CmdRank(trace[j])
                /\ \A h \in 1..(i - 1) : trace[h].cmd # "expunge"

\* C22 witness: a sweep has ended in which the first message was flagged
\* before the second one was fetched, and the second one flagged too.
C22_Witness ==
    /\ SweepEnded
    /\ Len(message_ids) = 2
    /\ \E i \in Entries("store", message_ids[1]) :
          /\ i + 1 \in Entries("fetch", message_ids[2])
          /\ \E j \in Entries("store", message_ids[2]) : j > i
    /\ trace[Len(trace)].cmd = "expunge"

\* The statements of one iteration of run_continuous: connect and the sweep
IterationPcs == {"cn_open", "cn_login"} \cup SweepPcs

\* ---- C23: in run_continuous an iteration begins either when the call
\* begins or when the sleep ends, an iteration that ends without ending
\* run_continuous ends in the sleep, and between two sleeps at most one
\* connect attempt and at most one sweep are made.
C23_SleepBetweenIterations ==
    /\ [][(pc' = "rc_top" /\ pc # "rc_top") => pc \in {"idle", "rc_sleep"}]_vars
    /\ [][(op = "run_continuous" /\ pc \in IterationPcs
              /\ pc' \notin IterationPcs)
             => pc' \in {"rc_sleep", "done"}]_vars
    /\ [][(pc = "rc_sleep" /\ pc' # "rc_sleep") => pc' \in {"rc_top", "done"}]_vars
    /\ [](op = "run_continuous" =>
             /\ Cardinality(Entries("open", 0)) <= 1
             /\ Cardinality(Entries("select", 0)) <= 1
             /\ Cardinality(Entries("expunge", 0)) <= 1)

\* C23 witness: the iteration after a failed connect attempt and its sleep
\* has run a sweep and is in its own sleep.
C23_Witness ==
    /\ op = "run_continuous" /\ pc = "rc_sleep"
    /\ prevIter = "connect_failed"
    /\ SweepBegun /\ SweepReachedExpunge

\* Message m has a copy in a folder that exists.
HasCopy(m) == \E c \in copies : c[1] = m /\ c[2] \in folders

\* ---- C24: every message that was delivered is in the inbox or has been
\* removed by expunge and then has a copy in a target folder; a message
\* that carries the deletion flag has such a copy already.
C24_NoMessageLost ==
    /\ inbox \cup expunged = 1..arrived
    /\ \A m \in expunged : HasCopy(m)
    /\ \A m \in deleted : HasCopy(m)

\* C24 witness: a sweep has ended with an OK expunge in which the create of
\* the target folder of one message was refused, its copy failed and the
\* message is still in the inbox, while another message was relocated and
\* removed.
C24_Witness ==
    /\ SweepEnded
    /\ trace[Len(trace)].cmd = "expunge" /\ trace[Len(trace)].st = "OK"
    /\ \E i \in DOMAIN trace :
          /\ trace[i].cmd = "create" /\ trace[i].arg = "move_email"
          /\ trace[i].st = "NO"
          /\ trace[i].msg \in inbox
          /\ ~HasCopy(trace[i].msg)
    /\ expunged # {}

\* ---- C25: connect() starts only while the processor holds no session, and
\* the session the processor holds is replaced by another one only after it
\* was given up: a new session is never stored over one that is still held.
C25_OneSession ==
    /\ [](pc = "cn_open" => connection = 0)
    /\ [][(pc = "rc_top" /\ pc' = "cn_open") => connection = 0]_vars
    /\ [][(connection' # connection /\ connection' # 0) => connection = 0]_vars

\* C25 witness: run_continuous opened a second session after disconnect()
\* had given up the first one, swept with it, and starts its next sweep with
\* the same session without connecting again.
C25_Witness ==
    /\ op = "run_continuous" /\ pc = "pi_select"
    /\ prevIter = "swept"
    /\ connection = 2 /\ connection \in live

====
